---- MODULE Spec2Model ----
(***************************************************************************)
(* Model of the customer-support agent of first_real_agent.py: the four    *)
(* tools (check_order_status, check_return_policy, create_support_ticket,  *)
(* check_inventory) over the three record stores, and MonitoredAgent, the  *)
(* runner that wraps one dispatcher call with timing, outcome              *)
(* classification, error containment and aggregate metrics.                *)
(*                                                                         *)
(* Texts the program inspects (lower-casing, substring test, SQL           *)
(* comparison of an identifier) are sequences of one-character strings;    *)
(* texts it only passes along are plain strings.  The clock counts ticks   *)
(* of 1/TicksPerSecond second, so that formatting a timestamp to second    *)
(* resolution loses information as strftime does.                          *)
(***************************************************************************)
EXTENDS Integers, Sequences, FiniteSets, TLC

VARIABLES
    orders,        \* orders.db: id -> [status, order_date, total_amount]
    inventory,     \* inventory.db: product_id -> [name, quantity, next_restock_date]
    tickets,       \* tickets.db: the rows of table tickets, in insertion order
    now,           \* datetime.now(), in ticks
    metrics,       \* MonitoredAgent.metrics
    pc,            \* the position of MonitoredAgent.run: "idle" or "in_flight"
    start_time,    \* run's local start_time while in flight
    unclosed,      \* the tools that have left a connection they opened without close()
    ret,           \* what the most recent operation handed back to its caller
    last_run,      \* history: the result of the most recent finished run invocation
    faulted,       \* history: number of run invocations that ended in the except branch
    ticket_calls,  \* history: number of create_support_ticket calls that returned
    agent_input,   \* the argument of the agent.invoke call in flight
    threads        \* callers that share one MonitoredAgent: each one's position in run

vars == <<orders, inventory, tickets, now, metrics, pc, start_time, unclosed, ret,
          last_run, faulted, ticket_calls, agent_input, threads>>

-----------------------------------------------------------------------------
(* Bounds of the model *)

MaxQueries == 3
MaxClock == 2
MaxTickets == 2
MaxQty == 2

(* strftime('%Y%m%d%H%M%S') keeps whole seconds of a clock that is finer. *)
TicksPerSecond == 2

-----------------------------------------------------------------------------
(* Texts as character sequences *)

UpperLetters == <<"A","B","C","D","E","F","G","H","I","J","K","L","M",
                  "N","O","P","Q","R","S","T","U","V","W","X","Y","Z">>
LowerLetters == <<"a","b","c","d","e","f","g","h","i","j","k","l","m",
                  "n","o","p","q","r","s","t","u","v","w","x","y","z">>
DigitChars == <<"0","1","2","3","4","5","6","7","8","9">>

(* str.lower() on one character *)
LowerChar(c) ==
    IF \E i \in DOMAIN UpperLetters : UpperLetters[i] = c
    THEN LowerLetters[CHOOSE i \in DOMAIN UpperLetters : UpperLetters[i] = c]
    ELSE c

(* str.lower() *)
Lower(s) == [i \in DOMAIN s |-> LowerChar(s[i])]

(* sub in s *)
Contains(s, sub) ==
    \E i \in 0..(Len(s) - Len(sub)) : SubSeq(s, i + 1, i + Len(sub)) = sub

IsDigit(c) == \E i \in DOMAIN DigitChars : DigitChars[i] = c

DigitVal(c) == (CHOOSE i \in DOMAIN DigitChars : DigitChars[i] = c) - 1

RECURSIVE ParseInt(_)
ParseInt(s) ==
    IF s = <<>> THEN 0
    ELSE 10 * ParseInt(SubSeq(s, 1, Len(s) - 1)) + DigitVal(s[Len(s)])

(* Python values that reach a comparison carry their type: 1 == "1" is False. *)
PyInt(n) == [t |-> "int", v |-> n]
PyStr(s) == [t |-> "str", v |-> s]

-----------------------------------------------------------------------------
(* Faults and call outcomes *)

NoFault == [type |-> "none", msg |-> ""]

(* sqlite3 errors a storage call can raise *)
StorageFaults ==
    { [type |-> "OperationalError", msg |-> "database is locked"] }

(* other faults the dispatcher call can raise *)
DispatchFaults ==
    { [type |-> "APIConnectionError", msg |-> "Connection error."] }

(* str(e): a KeyError shows the repr of its key, other faults their message *)
Str(e) == IF e.type = "KeyError" THEN "'" \o e.msg \o "'" ELSE e.msg

Return(v) == [kind |-> "return", value |-> v]
Raise(e) == [kind |-> "raise", exc |-> e]

-----------------------------------------------------------------------------
(* Storage connections *)

(* sqlite3.connect(...) in each tool; check_return_policy opens none *)
Database ==
    [check_order_status |-> "orders.db", create_support_ticket |-> "tickets.db",
     check_inventory |-> "inventory.db"]

(* Closes with check_order_status closing its connection before it returns *)
Closes_OrderLookup(op) == op = "check_order_status"

(* conn.close() is called by no tool of first_real_agent.py *)
Closes(op) == FALSE

(* the tool, when its call ends with the connection it opened not closed *)
LeftOpen(op) == IF op \in DOMAIN Database /\ ~Closes(op) THEN {op} ELSE {}

-----------------------------------------------------------------------------
(* The record stores *)

(* rows the sample-data scripts and the demo refer to *)
SampleOrders ==
    (1 :> [status |-> "shipped", order_date |-> "2024-01-15", total_amount |-> 29999])
    @@ (4 :> [status |-> "shipped", order_date |-> "2024-01-15", total_amount |-> 29999])

OrderStores == { [id \in S |-> SampleOrders[id]] : S \in SUBSET DOMAIN SampleOrders }

ProductIds == {"PROD-XYZ", "PROD-ABC"}

InventoryRow(q) ==
    [name |-> "Wireless Headphones", quantity |-> q, next_restock_date |-> "2024-02-01"]

InventoryStores ==
    { [p \in S |-> InventoryRow(q)] : S \in SUBSET ProductIds, q \in 0..MaxQty }

(* identifiers callers pass: present, absent, zero-padded, not a number *)
OrderIdInputs == { <<"1">>, <<"4">>, <<"0","1">>, <<"9","9","9">>, <<"a","b","c">> }

ProductIdInputs == ProductIds \cup {"NON-EXISTENT", "prod-xyz"}

-----------------------------------------------------------------------------
(* check_order_status *)

(* SQLite compares a text parameter with the integer column id after        *)
(* converting a well-formed integer text to an integer; other text never    *)
(* equals an integer.                                                       *)
IntegerAffinity(s) ==
    IF s # <<>> /\ \A i \in DOMAIN s : IsDigit(s[i])
    THEN PyInt(ParseInt(s))
    ELSE PyStr(s)

(* SelectOrder comparing the parameter as text, without the conversion *)
SelectOrder_TextCompare(order_id) ==
    { <<PyInt(id), orders[id].status, orders[id].order_date, orders[id].total_amount>> :
        id \in { i \in DOMAIN orders : PyStr(order_id) = PyInt(i) } }

(* SELECT id, status, order_date, total_amount FROM orders WHERE id = ? *)
SelectOrder(order_id) ==
    { <<PyInt(id), orders[id].status, orders[id].order_date, orders[id].total_amount>> :
        id \in { i \in DOMAIN orders : IntegerAffinity(order_id) = PyInt(i) } }

check_order_status(order_id, db) ==
    IF db # NoFault THEN Raise(db)
    ELSE LET rows == SelectOrder(order_id) IN
         IF rows # {}
         THEN LET result == CHOOSE r \in rows : TRUE IN
              Return([order_id |-> result[1], status |-> result[2],
                      order_date |-> result[3], total_amount |-> result[4]])
         ELSE Return([error |-> "Order not found"])

-----------------------------------------------------------------------------
(* check_return_policy *)

electronics == <<"e","l","e","c","t","r","o","n","i","c","s">>
clothing == <<"c","l","o","t","h","i","n","g">>
furniture == <<"f","u","r","n","i","t","u","r","e">>

policies ==
    { <<electronics, "30-day return window, must include original packaging">>,
      <<clothing, "60-day return window, must have tags attached">>,
      <<furniture, "14-day return window, assembly affects eligibility">> }

StandardPolicy == "Standard 30-day return policy applies"

(* policies.get(key, default) *)
DictGet(d, key, default) ==
    IF \E e \in d : e[1] = key THEN (CHOOSE e \in d : e[1] = key)[2] ELSE default

(* check_return_policy with the key lower-cased before the lookup *)
check_return_policy_AnyCase(product_type) ==
    Return(DictGet(policies, Lower(product_type), StandardPolicy))

check_return_policy(product_type) ==
    Return(DictGet(policies, product_type, StandardPolicy))

ProductTypeInputs ==
    { electronics, clothing, furniture,
      <<"E","l","e","c","t","r","o","n","i","c","s">>,
      <<"C","L","O","T","H","I","N","G">>,
      <<"t","o","y","s">>, <<>> }

-----------------------------------------------------------------------------
(* check_inventory *)

(* SELECT product_id, name, quantity, next_restock_date FROM inventory
   WHERE product_id = ? *)
SelectInventory(product_id) ==
    { <<p, inventory[p].name, inventory[p].quantity, inventory[p].next_restock_date>> :
        p \in { i \in DOMAIN inventory : i = product_id } }

(* InStock with the comparison off by one *)
InStock_AtLeastZero(quantity) == quantity >= 0

InStock(quantity) == quantity > 0

check_inventory(product_id, db) ==
    IF db # NoFault THEN Raise(db)
    ELSE LET rows == SelectInventory(product_id) IN
         IF rows # {}
         THEN LET result == CHOOSE r \in rows : TRUE IN
              Return([product_id |-> result[1], name |-> result[2],
                      in_stock |-> InStock(result[3]), quantity |-> result[3],
                      next_restock |-> result[4]])
         ELSE Return([error |-> "Product not found"])

-----------------------------------------------------------------------------
(* create_support_ticket *)

(* Strftime keeping the fraction of the second *)
Strftime_ToTheTick(t) == t

(* datetime.now().strftime('%Y%m%d%H%M%S'): the clock cut to whole seconds *)
Strftime(t) == t \div TicksPerSecond

(* f"TKT-{...}" *)
TicketId(t) == <<"TKT-", Strftime(t)>>

(* InsertTicket storing "medium" for a priority outside the known labels *)
InsertTicket_KnownPriority(ticket_id, customer_email, issue, priority) ==
    Append(tickets, [ticket_id |-> ticket_id, customer_email |-> customer_email,
                     issue |-> issue,
                     priority |-> IF priority \in {"low", "medium", "high", "urgent"}
                                  THEN priority ELSE "medium",
                     status |-> "open"])

(* InsertTicket as INSERT OR REPLACE: a row with the same ticket_id is replaced *)
InsertTicket_Replace(ticket_id, customer_email, issue, priority) ==
    LET row == [ticket_id |-> ticket_id, customer_email |-> customer_email,
                issue |-> issue, priority |-> priority, status |-> "open"]
    IN  IF \E i \in DOMAIN tickets : tickets[i].ticket_id = ticket_id
        THEN [i \in DOMAIN tickets |->
                 IF tickets[i].ticket_id = ticket_id THEN row ELSE tickets[i]]
        ELSE Append(tickets, row)

(* INSERT INTO tickets (...) VALUES (?, ?, ?, ?, 'open') *)
InsertTicket(ticket_id, customer_email, issue, priority) ==
    Append(tickets, [ticket_id |-> ticket_id, customer_email |-> customer_email,
                     issue |-> issue, priority |-> priority, status |-> "open"])

TicketMessage(ticket_id) ==
    <<"Support ticket ", ticket_id, " created. Team will respond within 24 hours.">>

(* the arguments are stored as given: nothing validates them *)
TicketInputs ==
    { [customer_email |-> "ann@example.com", issue |-> "refund over $500", priority |-> "high"],
      [customer_email |-> "not-an-email", issue |-> "", priority |-> "whenever"] }

(* the ticket the dispatcher files for the customer of the demo's refund query *)
(* the arguments the dispatcher passes to the lookups in the runner's model:
   the dispatcher keeps what a tool returns to itself, so one input of each
   tool stands for all *)
DispatcherOrderIds == { <<"1">> }

DispatcherProductTypes == { electronics }

DispatcherProductIds == { "PROD-XYZ" }

DispatcherTicketInputs ==
    { [customer_email |-> "ann@example.com", issue |-> "refund over $500", priority |-> "high"] }

-----------------------------------------------------------------------------
(* MonitoredAgent *)

Apology == "I apologize, but I encountered an error. A support ticket has been created."

ticket == <<"t","i","c","k","e","t">>

(* what agent.invoke can hand back: a dict with an output text, or one without *)
ReplyTexts ==
    { <<"S","h","i","p","p","e","d">>,
      <<"a"," ","t","i","c","k","e","t">>,
      <<"T","I","C","K","E","T">>,
      <<"t","i","c","k"," ","e","t">> }

Replies == { [output |-> s] : s \in ReplyTexts } \cup { [intermediate_steps |-> <<>>] }

(* IsEscalation without lower() *)
IsEscalation_CaseSensitive(output) == Contains(output, ticket)

(* "ticket" in result["output"].lower() *)
IsEscalation(output) == Contains(Lower(output), ticket)

RECURSIVE Sum(_)
Sum(s) == IF s = <<>> THEN 0 ELSE s[1] + Sum(Tail(s))

RECURSIVE Gcd(_, _)
Gcd(a, b) == IF b = 0 THEN a ELSE Gcd(b, a % b)

(* what a division by zero leaves in place of a quotient *)
DivByZero == [num |-> 0, den |-> 0]

(* n / d: an exact quotient in lowest terms (the program holds it as a
   float), ZeroDivisionError when d = 0 *)
Frac(n, d) ==
    IF d = 0 THEN DivByZero ELSE [num |-> n \div Gcd(n, d), den |-> d \div Gcd(n, d)]

Zero == [num |-> 0, den |-> 1]

(* Rate without the guard on total *)
Rate_Unguarded(count, total) == Frac(count * 100, total)

(* Rate as a fraction of one, not a percentage *)
Rate_NotPercent(count, total) == IF total > 0 THEN Frac(count, total) ELSE Zero

(* count / total * 100 if total > 0 else 0 *)
Rate(count, total) == IF total > 0 THEN Frac(count * 100, total) ELSE Zero

(* round(n / d, 2), in hundredths: to nearest, a tie to the even hundredth *)
Round2(n, d) ==
    LET q == (100 * n) \div d
        r == (100 * n) % d
    IN  IF 2 * r > d \/ (2 * r = d /\ q % 2 = 1) THEN q + 1 ELSE q

(* avg_time of get_metrics, rounded, in hundredths of a second; the recorded
   latencies are in ticks *)
AverageResponseTime(times) ==
    IF times # <<>> THEN Round2(Sum(times), TicksPerSecond * Len(times)) ELSE 0

(* get_metrics with the rates taken over the counted invocations only *)
get_metrics_OverCounted ==
    LET counted == metrics.successful_resolutions + metrics.escalations
        resolution_rate == Rate(metrics.successful_resolutions, counted)
        escalation_rate == Rate(metrics.escalations, counted)
    IN  Return([total_queries |-> metrics.total_queries,
                resolution_rate |-> resolution_rate,
                escalation_rate |-> escalation_rate,
                average_response_time |->
                    AverageResponseTime(metrics.average_response_time)])

get_metrics ==
    LET resolution_rate == Rate(metrics.successful_resolutions, metrics.total_queries)
        escalation_rate == Rate(metrics.escalations, metrics.total_queries)
    IN  IF DivByZero \in {resolution_rate, escalation_rate}
        THEN Raise([type |-> "ZeroDivisionError", msg |-> "division by zero"])
        ELSE Return([total_queries |-> metrics.total_queries,
                     resolution_rate |-> resolution_rate,
                     escalation_rate |-> escalation_rate,
                     average_response_time |->
                         AverageResponseTime(metrics.average_response_time)])

(* SuccessResult with an empty error field, so that both results have one *)
SuccessResult_WithError(output, response_time) ==
    [status |-> "success", response |-> output, response_time |-> response_time,
     error |-> ""]

(* the success result of run *)
SuccessResult(output, response_time) ==
    [status |-> "success", response |-> output, response_time |-> response_time]

(* ErrorResult with the fault's text shown as the response *)
ErrorResult_ShowsFault(e) ==
    [status |-> "error", response |-> Str(e), error |-> Str(e)]

(* ErrorResult with the fault's text added to the response *)
ErrorResult_DetailInResponse(e) ==
    [status |-> "error", response |-> Apology \o " " \o Str(e), error |-> Str(e)]

(* the result run builds in its except branch *)
ErrorResult(e) ==
    [status |-> "error", response |-> Apology, error |-> Str(e)]

(* the metrics after the outcome of a reply is counted *)
Classify(m, output) ==
    IF IsEscalation(output)
    THEN [m EXCEPT !.escalations = @ + 1]
    ELSE [m EXCEPT !.successful_resolutions = @ + 1]

-----------------------------------------------------------------------------
(* Initial states *)

(* no agent.invoke call is in flight *)
NoInput == [input |-> "None"]

(* what the callers of run pass: the demonstration's queries and customer ids,
   and customer_id left at its default *)
Queries == {"Where is my order #12345?", "I want to return a $600 laptop that's defective"}

CustomerIds == {"None", "CUST_001"}

(* two callers of the one monitored_agent *)
Threads == {1, 2}

NoRun == [status |-> "none"]

(* a caller outside run; runs is history, the number of times the caller has
   stored total_queries *)
NotInRun == [at |-> "idle", loaded |-> 0, key |-> "None", start_time |-> 0,
             result |-> NoRun, runs |-> 0]

EmptyMetrics ==
    [total_queries |-> 0, successful_resolutions |-> 0, escalations |-> 0,
     average_response_time |-> <<>>]

NoReturn == [op |-> "none", args |-> <<>>, out |-> Return("None")]

InitRunner ==
    /\ tickets = <<>>
    /\ now = 0
    /\ metrics = EmptyMetrics
    /\ pc = "idle"
    /\ start_time = 0
    /\ unclosed = {}
    /\ ret = NoReturn
    /\ last_run = NoRun
    /\ faulted = 0
    /\ ticket_calls = 0
    /\ agent_input = NoInput
    /\ threads = [t \in Threads |-> NotInRun]

(* the runner over the sample stores *)
Init ==
    /\ orders = SampleOrders
    /\ inventory = [p \in {"PROD-XYZ"} |-> InventoryRow(MaxQty)]
    /\ InitRunner

(* the tools over every small store *)
ToolInit ==
    /\ orders \in OrderStores
    /\ inventory \in InventoryStores
    /\ InitRunner

-----------------------------------------------------------------------------
(* Actions *)

(* RunExcept with the fault counted as an escalation *)
RunExcept_CountsEscalation(e, m) ==
    /\ metrics' = [m EXCEPT !.escalations = @ + 1]
    /\ pc' = "idle"
    /\ ret' = [op |-> "run", args |-> <<>>, out |-> Return(ErrorResult(e))]
    /\ last_run' = ErrorResult(e)
    /\ faulted' = faulted + 1
    /\ agent_input' = NoInput
    /\ UNCHANGED <<start_time, tickets>>

(* RunExcept catching storage errors only: any other fault leaves run *)
RunExcept_OnlyStorageErrors(e, m) ==
    /\ metrics' = m
    /\ pc' = "idle"
    /\ ret' = [op |-> "run", args |-> <<>>,
               out |-> IF e.type = "OperationalError"
                       THEN Return(ErrorResult(e)) ELSE Raise(e)]
    /\ last_run' = ErrorResult(e)
    /\ faulted' = faulted + 1
    /\ agent_input' = NoInput
    /\ UNCHANGED <<start_time, tickets>>

(* RunExcept filing the ticket its apology announces *)
RunExcept_CreatesTicket(e, m) ==
    /\ metrics' = m
    /\ pc' = "idle"
    /\ ret' = [op |-> "run", args |-> <<>>, out |-> Return(ErrorResult(e))]
    /\ last_run' = ErrorResult(e)
    /\ faulted' = faulted + 1
    /\ tickets' = InsertTicket(TicketId(now), "", Str(e), "high")
    /\ agent_input' = NoInput
    /\ UNCHANGED start_time

(* RunExcept calling the dispatcher a second time after the first fault *)
RunExcept_RetriesOnce(e, m) ==
    /\ metrics' = m
    /\ pc' = IF faulted = 0 THEN "in_flight" ELSE "idle"
    /\ ret' = [op |-> "run", args |-> <<>>, out |-> Return(ErrorResult(e))]
    /\ last_run' = ErrorResult(e)
    /\ faulted' = faulted + 1
    /\ agent_input' = NoInput
    /\ UNCHANGED <<start_time, tickets>>

(* run's except branch: log, build the error result, count nothing *)
RunExcept(e, m) ==
    /\ metrics' = m
    /\ pc' = "idle"
    /\ ret' = [op |-> "run", args |-> <<>>, out |-> Return(ErrorResult(e))]
    /\ last_run' = ErrorResult(e)
    /\ faulted' = faulted + 1
    /\ agent_input' = NoInput
    /\ UNCHANGED <<start_time, tickets>>

(* A tool call ends.  Called directly, its outcome goes to the caller.
   Called by the dispatcher inside run, a returned value goes to the
   dispatcher and a raised fault passes through the dispatcher into run's
   except branch. *)
ToolEnds(op, args, out, rows) ==
    /\ unclosed' = unclosed \cup LeftOpen(op)
    /\ UNCHANGED threads
    /\ IF pc = "in_flight"
       THEN IF out.kind = "raise"
            THEN RunExcept(out.exc, metrics)
            ELSE /\ tickets' = rows
                 /\ UNCHANGED <<metrics, pc, start_time, ret, last_run, faulted,
                                agent_input>>
       ELSE /\ ret' = [op |-> op, args |-> args, out |-> out]
            /\ tickets' = rows
            /\ UNCHANGED <<metrics, pc, start_time, last_run, faulted, agent_input>>

CheckOrderStatus(order_id, db) ==
    /\ ToolEnds("check_order_status", <<order_id>>, check_order_status(order_id, db),
                tickets)
    /\ UNCHANGED <<orders, inventory, now, ticket_calls>>

CheckReturnPolicy(product_type) ==
    /\ ToolEnds("check_return_policy", <<product_type>>,
                check_return_policy(product_type), tickets)
    /\ UNCHANGED <<orders, inventory, now, ticket_calls>>

CheckInventory(product_id, db) ==
    /\ ToolEnds("check_inventory", <<product_id>>, check_inventory(product_id, db),
                tickets)
    /\ UNCHANGED <<orders, inventory, now, ticket_calls>>

CreateSupportTicket(in, db) ==
    /\ Len(tickets) < MaxTickets
    /\ LET ticket_id == TicketId(now)
           args == <<in.customer_email, in.issue, in.priority>>
       IN  IF db # NoFault
           THEN /\ ToolEnds("create_support_ticket", args, Raise(db), tickets)
                /\ UNCHANGED ticket_calls
           ELSE /\ ticket_calls' = ticket_calls + 1
                /\ ToolEnds("create_support_ticket", args,
                            Return(TicketMessage(ticket_id)),
                            InsertTicket(ticket_id, in.customer_email, in.issue,
                                         in.priority))
    /\ UNCHANGED <<orders, inventory, now>>

(* RunStart that leaves the counting of the query to the end of run *)
RunStart_CountsLater(query, customer_id) ==
    /\ pc = "idle"
    /\ metrics.total_queries < MaxQueries
    /\ start_time' = now
    /\ agent_input' = [input |-> query]
    /\ pc' = "in_flight"
    /\ UNCHANGED <<orders, inventory, tickets, now, metrics, unclosed, ret, last_run,
                   faulted, ticket_calls, threads>>

(* RunStart that hands the customer_id to the dispatcher with the query *)
RunStart_SendsCustomer(query, customer_id) ==
    /\ pc = "idle"
    /\ metrics.total_queries < MaxQueries
    /\ start_time' = now
    /\ metrics' = [metrics EXCEPT !.total_queries = @ + 1]
    /\ agent_input' = [input |-> query, customer_id |-> customer_id]
    /\ pc' = "in_flight"
    /\ UNCHANGED <<orders, inventory, tickets, now, unclosed, ret, last_run,
                   faulted, ticket_calls, threads>>

(* run, up to the call of agent.invoke({"input": query}); customer_id is
   a parameter the body never reads *)
RunStart(query, customer_id) ==
    /\ pc = "idle"
    /\ metrics.total_queries < MaxQueries
    /\ start_time' = now
    /\ metrics' = [metrics EXCEPT !.total_queries = @ + 1]
    /\ agent_input' = [input |-> query]
    /\ pc' = "in_flight"
    /\ UNCHANGED <<orders, inventory, tickets, now, unclosed, ret, last_run,
                   faulted, ticket_calls, threads>>

(* agent.invoke returns result: run records the latency, then reads
   result["output"], which raises KeyError when the key is missing *)
AgentReturns(result) ==
    /\ pc = "in_flight"
    /\ LET response_time == now - start_time
           timed == [metrics EXCEPT !.average_response_time = Append(@, response_time)]
       IN  IF "output" \in DOMAIN result
           THEN /\ metrics' = Classify(timed, result.output)
                /\ pc' = "idle"
                /\ ret' = [op |-> "run", args |-> <<>>,
                           out |-> Return(SuccessResult(result.output, response_time))]
                /\ last_run' = SuccessResult(result.output, response_time)
                /\ agent_input' = NoInput
                /\ UNCHANGED <<start_time, faulted, tickets>>
           ELSE RunExcept([type |-> "KeyError", msg |-> "output"], timed)
    /\ UNCHANGED <<orders, inventory, now, unclosed, ticket_calls, threads>>

(* agent.invoke raises *)
AgentRaises(e) ==
    /\ pc = "in_flight"
    /\ RunExcept(e, metrics)
    /\ UNCHANGED <<orders, inventory, now, unclosed, ticket_calls, threads>>

(* GetMetrics that clears the metrics once it has reported them *)
GetMetrics_Resets ==
    /\ pc = "idle"
    /\ ret' = [op |-> "get_metrics", args |-> <<>>, out |-> get_metrics]
    /\ metrics' = EmptyMetrics
    /\ UNCHANGED <<orders, inventory, tickets, now, pc, start_time,
                   unclosed, last_run, faulted, ticket_calls, agent_input, threads>>

GetMetrics ==
    /\ pc = "idle"
    /\ ret' = [op |-> "get_metrics", args |-> <<>>, out |-> get_metrics]
    /\ UNCHANGED <<orders, inventory, tickets, now, metrics, pc, start_time,
                   unclosed, last_run, faulted, ticket_calls, agent_input, threads>>

(* time passes *)
Tick ==
    /\ now < MaxClock
    /\ now' = now + 1
    /\ UNCHANGED <<orders, inventory, tickets, metrics, pc, start_time, unclosed,
                   ret, last_run, faulted, ticket_calls, agent_input, threads>>

ToolCall(order_ids, product_types, product_ids, ticket_inputs) ==
    \/ \E order_id \in order_ids, db \in {NoFault} \cup StorageFaults :
          CheckOrderStatus(order_id, db)
    \/ \E product_type \in product_types : CheckReturnPolicy(product_type)
    \/ \E product_id \in product_ids, db \in {NoFault} \cup StorageFaults :
          CheckInventory(product_id, db)
    \/ \E in \in ticket_inputs, db \in {NoFault} \cup StorageFaults :
          CreateSupportTicket(in, db)

(* inside run the dispatcher calls the tools *)
DispatcherCallsTool ==
    /\ pc = "in_flight"
    /\ ToolCall(DispatcherOrderIds, DispatcherProductTypes, DispatcherProductIds,
                DispatcherTicketInputs)

(* the tools called directly, as the test scripts call them *)
DirectToolCall ==
    /\ pc = "idle"
    /\ ToolCall(OrderIdInputs, ProductTypeInputs, ProductIdInputs, TicketInputs)

Next ==
    \/ DispatcherCallsTool
    \/ \E query \in Queries, customer_id \in CustomerIds : RunStart(query, customer_id)
    \/ \E result \in Replies : AgentReturns(result)
    \/ \E e \in DispatchFaults : AgentRaises(e)
    \/ GetMetrics
    \/ Tick

Spec == Init /\ [][Next]_vars

(* the agent.invoke call in flight returns or raises *)
DispatcherEnds ==
    \/ \E result \in Replies : AgentReturns(result)
    \/ \E e \in DispatchFaults : AgentRaises(e)

(* run and its dispatcher call alone, the dispatcher taken as a whole: what
   the tools inside it do reaches run as a reply or as a fault *)
RunNext ==
    \/ \E query \in Queries, customer_id \in CustomerIds : RunStart(query, customer_id)
    \/ DispatcherEnds
    \/ Tick

(* the runner with a dispatcher whose every call comes back *)
LiveSpec == Init /\ [][RunNext]_vars /\ WF_vars(DispatcherEnds)

ToolNext ==
    \/ DirectToolCall
    \/ Tick

ToolSpec == ToolInit /\ [][ToolNext]_vars

-----------------------------------------------------------------------------
(* MonitoredAgent.run called by several threads on one object.  The
   statement self.metrics[k] += 1 is a load of self.metrics[k], an addition
   and a store, and the class holds no lock: another thread can run between
   the load and the store.  The clock stands still here: the latencies the
   threads record are all 0, and the counters are what is followed. *)

RECURSIVE SumRuns(_)
SumRuns(T) ==
    IF T = {} THEN 0
    ELSE LET t == CHOOSE x \in T : TRUE IN threads[t].runs + SumRuns(T \ {t})

ThreadFrame ==
    UNCHANGED <<orders, inventory, tickets, pc, start_time, unclosed, ticket_calls,
                agent_input>>

(* start_time = datetime.now(); the load of self.metrics["total_queries"] *)
ThreadLoadTotal(t) ==
    /\ threads[t].at = "idle"
    /\ SumRuns(Threads) < MaxQueries
    /\ threads' = [threads EXCEPT ![t] =
                      [NotInRun EXCEPT !.at = "load_total",
                                       !.loaded = metrics.total_queries,
                                       !.start_time = now,
                                       !.runs = threads[t].runs]]
    /\ UNCHANGED <<now, metrics, ret, last_run, faulted>>
    /\ ThreadFrame

(* ThreadStoreTotal as one indivisible addition to the present value *)
ThreadStoreTotal_Atomic(t) ==
    /\ threads[t].at = "load_total"
    /\ metrics' = [metrics EXCEPT !.total_queries = @ + 1]
    /\ threads' = [threads EXCEPT ![t].at = "in_flight", ![t].runs = @ + 1]
    /\ UNCHANGED <<now, ret, last_run, faulted>>
    /\ ThreadFrame

(* the store of the loaded value plus one; then agent.invoke is called *)
ThreadStoreTotal(t) ==
    /\ threads[t].at = "load_total"
    /\ metrics' = [metrics EXCEPT !.total_queries = threads[t].loaded + 1]
    /\ threads' = [threads EXCEPT ![t].at = "in_flight", ![t].runs = @ + 1]
    /\ UNCHANGED <<now, ret, last_run, faulted>>
    /\ ThreadFrame

(* the except branch in a thread *)
ThreadExcept(t, e, m) ==
    /\ metrics' = m
    /\ threads' = [threads EXCEPT ![t] = [NotInRun EXCEPT !.runs = threads[t].runs]]
    /\ ret' = [op |-> "run", args |-> <<>>, out |-> Return(ErrorResult(e))]
    /\ last_run' = ErrorResult(e)
    /\ faulted' = faulted + 1

(* agent.invoke returns: the latency is appended (list.append is one step),
   result["output"] is read and classified, the outcome counter is loaded *)
ThreadAgentReturns(t, result) ==
    /\ threads[t].at = "in_flight"
    /\ LET response_time == now - threads[t].start_time
           timed == [metrics EXCEPT !.average_response_time = Append(@, response_time)]
       IN  IF "output" \in DOMAIN result
           THEN LET key == IF IsEscalation(result.output)
                           THEN "escalations" ELSE "successful_resolutions"
                IN  /\ metrics' = timed
                    /\ threads' = [threads EXCEPT
                          ![t].at = "load_outcome",
                          ![t].key = key,
                          ![t].loaded = metrics[key],
                          ![t].result = SuccessResult(result.output, response_time)]
                    /\ UNCHANGED <<ret, last_run, faulted>>
           ELSE ThreadExcept(t, [type |-> "KeyError", msg |-> "output"], timed)
    /\ UNCHANGED now
    /\ ThreadFrame

(* the store of the outcome counter; run returns the success result *)
ThreadStoreOutcome(t) ==
    /\ threads[t].at = "load_outcome"
    /\ metrics' = [metrics EXCEPT ![threads[t].key] = threads[t].loaded + 1]
    /\ threads' = [threads EXCEPT ![t] = [NotInRun EXCEPT !.runs = threads[t].runs]]
    /\ ret' = [op |-> "run", args |-> <<>>, out |-> Return(threads[t].result)]
    /\ last_run' = threads[t].result
    /\ UNCHANGED <<now, faulted>>
    /\ ThreadFrame

(* agent.invoke raises in a thread *)
ThreadAgentRaises(t, e) ==
    /\ threads[t].at = "in_flight"
    /\ ThreadExcept(t, e, metrics)
    /\ UNCHANGED now
    /\ ThreadFrame

ThreadsNext ==
    \/ \E t \in Threads : ThreadLoadTotal(t)
    \/ \E t \in Threads : ThreadStoreTotal(t)
    \/ \E t \in Threads, result \in Replies : ThreadAgentReturns(t, result)
    \/ \E t \in Threads : ThreadStoreOutcome(t)
    \/ \E t \in Threads, e \in DispatchFaults : ThreadAgentRaises(t, e)

ThreadsSpec == Init /\ [][ThreadsNext]_vars

-----------------------------------------------------------------------------
(* Properties of MonitoredAgent, under Spec *)

(* the text holds the letters t-i-c-k-e-t in a row, in any letter case *)
HasTicketAnyCase(s) ==
    \E i \in 1..(Len(s) - 5) :
        /\ s[i] \in {"t", "T"}
        /\ s[i + 1] \in {"i", "I"}
        /\ s[i + 2] \in {"c", "C"}
        /\ s[i + 3] \in {"k", "K"}
        /\ s[i + 4] \in {"e", "E"}
        /\ s[i + 5] \in {"t", "T"}

OutcomeCountersUnchanged ==
    /\ metrics'.successful_resolutions = metrics.successful_resolutions
    /\ metrics'.escalations = metrics.escalations

(* C1, as stated: between invocations, once one has been made,
   successful_resolutions + escalations = total_queries. *)
C1_ResolvedPlusEscalatedIsTotal ==
    (pc = "idle" /\ metrics.total_queries >= 1)
        => metrics.successful_resolutions + metrics.escalations = metrics.total_queries

(* C1, amended: successful_resolutions + escalations equals total_queries
   less the invocations that ended in the error outcome (and less the one in
   flight, while one is). *)
C1_ResolvedPlusEscalatedPlusFaulted ==
    metrics.successful_resolutions + metrics.escalations + faulted
        = metrics.total_queries - (IF pc = "in_flight" THEN 1 ELSE 0)

C1_Witness ==
    /\ pc = "idle"
    /\ faulted >= 1
    /\ metrics.successful_resolutions >= 1
    /\ metrics.escalations >= 1

(* C2: an invocation in which a fault is raised ends with status "error",
   the fixed apology as response and a non-empty error field, and no step of
   it, from its start to the fault, changes successful_resolutions or
   escalations. *)
C2_FaultGivesErrorAndCountsNothing ==
    [][ /\ (pc' = "in_flight" => OutcomeCountersUnchanged)
        /\ (faulted' # faulted =>
              /\ pc = "in_flight" /\ pc' = "idle"
              /\ ret'.op = "run"
              /\ ret'.out.kind = "return"
              /\ ret'.out.value.status = "error"
              /\ ret'.out.value.response = Apology
              /\ ret'.out.value.error # ""
              /\ OutcomeCountersUnchanged) ]_vars

(* a storage fault inside a tool ended an invocation that followed a counted one *)
C2_Witness ==
    /\ pc = "idle"
    /\ ret.op = "run"
    /\ ret.out.value.status = "error"
    /\ ret.out.value.error = "database is locked"
    /\ metrics.successful_resolutions + metrics.escalations >= 1

(* C3: when the dispatcher call returns a reply with an output text, the
   step that ends the invocation adds one to escalations if the text holds
   "ticket" in any letter case, to successful_resolutions otherwise, and
   leaves the other counter as it was. *)
C3_ExactlyOneOutcomeCounter ==
    [][ (pc = "in_flight" /\ pc' = "idle" /\ faulted' = faulted) =>
          /\ ret'.out.value.status = "success"
          /\ IF HasTicketAnyCase(ret'.out.value.response)
             THEN /\ metrics'.escalations = metrics.escalations + 1
                  /\ metrics'.successful_resolutions = metrics.successful_resolutions
             ELSE /\ metrics'.successful_resolutions = metrics.successful_resolutions + 1
                  /\ metrics'.escalations = metrics.escalations ]_vars

(* a reply with "TICKET" in capitals was counted as an escalation after a
   reply without the word was counted as a resolution *)
C3_Witness ==
    /\ pc = "idle"
    /\ last_run.status = "success"
    /\ last_run.response = <<"T","I","C","K","E","T">>
    /\ metrics.escalations = 1
    /\ metrics.successful_resolutions = 1

FreshMetrics ==
    [total_queries |-> 0, resolution_rate |-> Zero, escalation_rate |-> Zero,
     average_response_time |-> 0]

(* C4: get_metrics before any run invocation returns total_queries 0, both
   rates 0 and average_response_time 0, and raises nothing. *)
C4_FreshMetricsAreZero ==
    (ret.op = "get_metrics" /\ metrics.total_queries = 0)
        => ret.out = Return(FreshMetrics)

C4_Witness ==
    /\ ret.op = "get_metrics"
    /\ metrics.total_queries = 0
    /\ ret.out.kind = "return"

Hundred == [num |-> 100, den |-> 1]

(* C5: get_metrics after exactly one invocation, which succeeded, reports
   resolution_rate 100 and escalation_rate 0 if the reply did not hold
   "ticket", and resolution_rate 0 and escalation_rate 100 if it did. *)
C5_RatesAfterOneInvocation ==
    (/\ pc = "idle"
     /\ ret.op = "get_metrics"
     /\ metrics.total_queries = 1
     /\ last_run.status = "success")
        => /\ ret.out.kind = "return"
           /\ IF HasTicketAnyCase(last_run.response)
              THEN /\ ret.out.value.resolution_rate = Zero
                   /\ ret.out.value.escalation_rate = Hundred
              ELSE /\ ret.out.value.resolution_rate = Hundred
                   /\ ret.out.value.escalation_rate = Zero

C5_Witness ==
    /\ pc = "idle"
    /\ ret.op = "get_metrics"
    /\ metrics.total_queries = 1
    /\ last_run.status = "success"
    /\ HasTicketAnyCase(last_run.response)
    /\ ret.out.value.escalation_rate = Hundred

(* C10: run hands every fault raised inside its try block back as a value:
   whatever ends an invocation, the caller gets a returned result, and when
   a fault ended it (one raised by a tool or by the dispatcher, or the
   KeyError of a reply without output) that result is the error result with
   the fixed apology. *)
C10_RunNeverPropagates ==
    [][ (pc = "in_flight" /\ pc' = "idle") =>
          /\ ret'.op = "run"
          /\ ret'.out.kind = "return"
          /\ ret'.out.value = last_run'
          /\ ret'.out.value.status \in {"success", "error"}
          /\ (faulted' # faulted =>
                /\ ret'.out.value.status = "error"
                /\ ret'.out.value.response = Apology) ]_vars

(* a reply without output was turned into the error result *)
C10_Witness ==
    /\ pc = "idle"
    /\ ret.op = "run"
    /\ ret.out.kind = "return"
    /\ ret.out.value.status = "error"
    /\ ret.out.value.response = Apology
    /\ ret.out.value.error = "'output'"

-----------------------------------------------------------------------------
(* Properties of the tools, under ToolSpec *)

IsNumeral(s) == s # <<>> /\ \A i \in DOMAIN s : s[i] \in {"0","1","2","3","4","5","6","7","8","9"}

OrderNotFound == [error |-> "Order not found"]

(* the record of order id, with order_id given as v *)
OrderRecord(id, v) ==
    [order_id |-> v, status |-> orders[id].status,
     order_date |-> orders[id].order_date, total_amount |-> orders[id].total_amount]

(* C6, as stated: for an identifier in the store the record returned has
   order_id equal to the identifier that was passed (a text); for any other,
   the result is {error: "Order not found"}. *)
C6_OrderIdEqualsQuery ==
    (ret.op = "check_order_status" /\ ret.out.kind = "return") =>
        LET q == ret.args[1] IN
        IF IsNumeral(q) /\ ParseInt(q) \in DOMAIN orders
        THEN ret.out.value = OrderRecord(ParseInt(q), PyStr(q))
        ELSE ret.out.value = OrderNotFound

(* C6, amended: for an identifier text that is the decimal numeral of an id
   in the store the record returned is that order's, with order_id the
   stored integer id, not the text passed; for any other, the result is
   {error: "Order not found"}. *)
C6_OrderIdIsStoredId ==
    (ret.op = "check_order_status" /\ ret.out.kind = "return") =>
        LET q == ret.args[1] IN
        IF IsNumeral(q) /\ ParseInt(q) \in DOMAIN orders
        THEN ret.out.value = OrderRecord(ParseInt(q), PyInt(ParseInt(q)))
        ELSE ret.out.value = OrderNotFound

(* the query "01" found order 1 *)
C6_Witness ==
    /\ ret.op = "check_order_status"
    /\ ret.args = << <<"0","1">> >>
    /\ ret.out.kind = "return"
    /\ ret.out.value # OrderNotFound
    /\ ret.out.value.order_id = PyInt(1)

(* C7: for a product in the store with quantity q the record returned is
   that product's, with quantity q and in_stock = (q > 0); for any other
   identifier the result is {error: "Product not found"}. *)
C7_InStockIffPositive ==
    (ret.op = "check_inventory" /\ ret.out.kind = "return") =>
        LET p == ret.args[1] IN
        IF p \in DOMAIN inventory
        THEN /\ ret.out.value.product_id = p
             /\ ret.out.value.quantity = inventory[p].quantity
             /\ ret.out.value.in_stock = (inventory[p].quantity > 0)
        ELSE ret.out.value = [error |-> "Product not found"]

(* a product with quantity 0 was reported out of stock *)
C7_Witness ==
    /\ ret.op = "check_inventory"
    /\ ret.out.kind = "return"
    /\ ret.args[1] \in DOMAIN inventory
    /\ ret.out.value.quantity = 0
    /\ ret.out.value.in_stock = FALSE

(* C8: check_return_policy returns the 30-day text for "electronics", the
   60-day text for "clothing", the 14-day text for "furniture" and, for any
   other text (a key in another letter case too), the standard text; it
   never raises. *)
C8_PolicyByExactKey ==
    (ret.op = "check_return_policy") =>
        LET k == ret.args[1] IN
        ret.out =
            Return(CASE k = <<"e","l","e","c","t","r","o","n","i","c","s">> ->
                          "30-day return window, must include original packaging"
                     [] k = <<"c","l","o","t","h","i","n","g">> ->
                          "60-day return window, must have tags attached"
                     [] k = <<"f","u","r","n","i","t","u","r","e">> ->
                          "14-day return window, assembly affects eligibility"
                     [] OTHER -> "Standard 30-day return policy applies")

(* "Electronics" got the standard text *)
C8_Witness ==
    /\ ret.op = "check_return_policy"
    /\ ret.args = << <<"E","l","e","c","t","r","o","n","i","c","s">> >>
    /\ ret.out = Return("Standard 30-day return policy applies")

(* C9, as stated: the calls of create_support_ticket that returned have each
   left one row, and the rows carry pairwise distinct ticket identifiers. *)
C9_DistinctTicketIds ==
    /\ Len(tickets) = ticket_calls
    /\ \A i, j \in DOMAIN tickets :
          i # j => tickets[i].ticket_id # tickets[j].ticket_id

-----------------------------------------------------------------------------
(* Further properties of MonitoredAgent, under Spec *)

(* the texts str(e) gives for the faults that can end an invocation *)
FaultTexts ==
    { Str(e) : e \in StorageFaults \cup DispatchFaults \cup
                      { [type |-> "KeyError", msg |-> "output"] } }

(* C11: the response of an error result does not depend on the fault: each
   invocation that ends in the except branch returns the same response as
   any failed invocation before it, and the fault's text is in the error
   field only. *)
C11_ErrorResponseIndependentOfFault ==
    [][ faulted' # faulted =>
          /\ last_run'.error \in FaultTexts
          /\ last_run'.response \notin FaultTexts
          /\ last_run'.response = "I apologize, but I encountered an error. A support ticket has been created."
          /\ (last_run.status = "error" => last_run'.response = last_run.response) ]_vars

(* two invocations have failed and nothing was counted; one latency is
   recorded, so exactly one of the two failed on a reply without output and
   the other on a fault with another text *)
C11_Witness ==
    /\ pc = "idle"
    /\ faulted = 2
    /\ metrics.total_queries = 2
    /\ Len(metrics.average_response_time) = 1
    /\ last_run.status = "error"
    /\ last_run.response = Apology

(* C13: every result of run has status "success" or "error" and a response;
   a success result has response_time and no error field, an error result
   has an error field and no response_time. *)
C13_ResultShape ==
    (ret.op = "run") =>
        /\ ret.out.kind = "return"
        /\ "status" \in DOMAIN ret.out.value
        /\ "response" \in DOMAIN ret.out.value
        /\ ret.out.value.status \in {"success", "error"}
        /\ (ret.out.value.status = "success" =>
              /\ "response_time" \in DOMAIN ret.out.value
              /\ "error" \notin DOMAIN ret.out.value)
        /\ (ret.out.value.status = "error" =>
              /\ "error" \in DOMAIN ret.out.value
              /\ "response_time" \notin DOMAIN ret.out.value)

(* a success result was returned after an error result *)
C13_Witness ==
    /\ ret.op = "run"
    /\ ret.out.value.status = "success"
    /\ DOMAIN ret.out.value = {"status", "response", "response_time"}
    /\ faulted >= 1

(* C14: total_queries grows by exactly one on the step that starts an
   invocation, before the dispatcher is called, and on no other step: it
   counts the invocations started, those that fault included. *)
C14_TotalCountsStarts ==
    [][ metrics'.total_queries =
            metrics.total_queries + (IF pc = "idle" /\ pc' = "in_flight" THEN 1 ELSE 0) ]_vars

(* the dispatcher of a second invocation has not answered yet, the first
   invocation faulted, and both are counted *)
C14_Witness ==
    /\ pc = "in_flight"
    /\ faulted = 1
    /\ metrics.successful_resolutions + metrics.escalations = 0
    /\ metrics.total_queries = 2

(* C15: the step that ends an invocation in the error outcome leaves the
   tickets store as it was, as the dispatcher left it, while the response it
   returns is the apology that announces a ticket. *)
C15_FaultPathCreatesNoTicket ==
    [][ faulted' # faulted =>
          /\ tickets' = tickets
          /\ last_run'.status = "error"
          /\ last_run'.response = Apology ]_vars

(* the caller was told a ticket has been created and the store holds none *)
C15_Witness ==
    /\ pc = "idle"
    /\ last_run.status = "error"
    /\ last_run.response = Apology
    /\ tickets = <<>>

Abs(n) == IF n < 0 THEN -n ELSE n

(* the rate is 100 * count / total, as an exact quotient *)
IsPercentOf(rate, count, total) == rate.num * total = 100 * count * rate.den

(* C20, as stated: with total_queries > 0 get_metrics reports each rate as
   100 * counter / total_queries and average_response_time as the arithmetic
   mean of the recorded latencies, 0 when there is none. *)
C20_RatesAndExactMean ==
    (pc = "idle" /\ ret.op = "get_metrics" /\ metrics.total_queries > 0) =>
        LET v == ret.out.value
            times == metrics.average_response_time
        IN  /\ ret.out.kind = "return"
            /\ IsPercentOf(v.resolution_rate, metrics.successful_resolutions,
                           metrics.total_queries)
            /\ IsPercentOf(v.escalation_rate, metrics.escalations, metrics.total_queries)
            /\ IF times = <<>> THEN v.average_response_time = 0
               ELSE v.average_response_time * TicksPerSecond * Len(times)
                        = 100 * Sum(times)

(* C20, amended: with total_queries > 0 get_metrics reports each rate as
   100 * counter / total_queries, over all invocations, and
   average_response_time as the arithmetic mean of the recorded latencies
   rounded to two decimal places, 0 when there is none. *)
C20_RatesAndRoundedMean ==
    (pc = "idle" /\ ret.op = "get_metrics" /\ metrics.total_queries > 0) =>
        LET v == ret.out.value
            times == metrics.average_response_time
        IN  /\ ret.out.kind = "return"
            /\ IsPercentOf(v.resolution_rate, metrics.successful_resolutions,
                           metrics.total_queries)
            /\ IsPercentOf(v.escalation_rate, metrics.escalations, metrics.total_queries)
            /\ IF times = <<>> THEN v.average_response_time = 0
               ELSE 2 * Abs(v.average_response_time * TicksPerSecond * Len(times)
                              - 100 * Sum(times))
                        <= TicksPerSecond * Len(times)

(* one invocation of three faulted, the rates are thirds of 100, and the
   mean of the latencies is not a whole number of hundredths *)
C20_Witness ==
    /\ pc = "idle"
    /\ ret.op = "get_metrics"
    /\ metrics.total_queries = 3
    /\ faulted = 1
    /\ metrics.successful_resolutions = 1
    /\ ret.out.value.resolution_rate = [num |-> 100, den |-> 3]
    /\ ret.out.value.average_response_time * TicksPerSecond
            * Len(metrics.average_response_time)
         # 100 * Sum(metrics.average_response_time)

(* C21: the metrics are empty at construction and are never reset: no step
   lowers total_queries, successful_resolutions, escalations or the number
   of recorded latencies, and a get_metrics call leaves the metrics as they
   were. *)
C21_MetricsNeverReset ==
    /\ metrics = EmptyMetrics
    /\ [][ /\ metrics'.total_queries >= metrics.total_queries
           /\ metrics'.successful_resolutions >= metrics.successful_resolutions
           /\ metrics'.escalations >= metrics.escalations
           /\ Len(metrics'.average_response_time) >= Len(metrics.average_response_time)
           /\ (pc = "idle" /\ pc' = "idle" /\ ret'.op = "get_metrics"
                 => metrics' = metrics) ]_vars

(* get_metrics has reported after three invocations, and the metrics still
   hold the three *)
C21_Witness ==
    /\ pc = "idle"
    /\ ret.op = "get_metrics"
    /\ ret.out.value.total_queries = 3
    /\ metrics.total_queries = 3
    /\ Len(metrics.average_response_time) = 3

(* C24: between invocations there is one recorded latency for each
   invocation counted as resolved or escalated; an invocation that ends in
   the error outcome has recorded none. *)
C24_LatencyPerCountedInvocation ==
    pc = "idle" =>
        Len(metrics.average_response_time)
            = metrics.successful_resolutions + metrics.escalations

(* C25: customer_id has no effect.  Whenever a step is the start of run
   with some query and some customer_id, the same step is the start of run
   with that query and every other customer_id: the dispatcher is handed the
   query alone, and nothing of the state the invocation goes on from, the
   counters among it, tells which customer_id was passed. *)
C25_CustomerIdHasNoEffect ==
    [][ \A query \in Queries, c1 \in CustomerIds :
           RunStart(query, c1) =>
              /\ agent_input' = [input |-> query]
              /\ \A c2 \in CustomerIds : RunStart(query, c2) ]_vars

(* the second invocation of the demonstration, with or without a
   customer_id, is in flight *)
C25_Witness ==
    /\ pc = "in_flight"
    /\ metrics.total_queries = 2
    /\ agent_input = [input |-> "I want to return a $600 laptop that's defective"]

-----------------------------------------------------------------------------
(* Properties of an invocation's course, under LiveSpec *)

Outcomes == metrics.successful_resolutions + metrics.escalations

(* C22: an invocation makes one dispatcher call.  A fault ends the
   invocation, it is not followed by a second call; the step that ends the
   invocation gives exactly one outcome, success or error; while the call is
   out there is no outcome, and the passing of time alone ends nothing.
   When every dispatcher call returns or raises, every invocation ends. *)
C22_OneCallOneOutcome ==
    /\ [][ /\ (faulted' # faulted => pc = "in_flight" /\ pc' = "idle")
           /\ (pc = "in_flight" /\ pc' = "idle" =>
                 /\ ret'.op = "run"
                 /\ ret'.out = Return(last_run')
                 /\ last_run'.status \in {"success", "error"}
                 /\ (last_run'.status = "error") <=>
                       (faulted' = faulted + 1 /\ Outcomes' = Outcomes)
                 /\ (last_run'.status = "success") <=>
                       (faulted' = faulted /\ Outcomes' = Outcomes + 1))
           /\ (pc' = "in_flight" =>
                 last_run' = last_run /\ faulted' = faulted /\ Outcomes' = Outcomes)
           /\ (now' # now => pc' = pc) ]_vars
    /\ (pc = "in_flight" ~> pc = "idle")

(* after a first invocation that faulted, a second one has been in flight
   for the whole of the clock *)
C22_Witness ==
    /\ pc = "in_flight"
    /\ metrics.total_queries = 2
    /\ faulted = 1
    /\ last_run.status = "error"
    /\ now - start_time = 2

-----------------------------------------------------------------------------
(* Further properties of the tools, under ToolSpec *)

(* C12, as stated: every storage-backed tool closes the connection it opened
   before its call ends, so no tool has an unclosed connection after any
   sequence of tool calls. *)
C12_NoUnclosedConnection == unclosed = {}

(* C16: a create_support_ticket call that returns has added exactly one row,
   with status "open" and the contact, issue and priority it was given, and
   the text it returns holds the ticket_id of that row. *)
C16_TicketRowIsTheInput ==
    [][ ticket_calls' # ticket_calls =>
          /\ ret'.op = "create_support_ticket"
          /\ ret'.out.kind = "return"
          /\ Len(tickets') = Len(tickets) + 1
          /\ LET row == tickets'[Len(tickets')] IN
             /\ row.status = "open"
             /\ row.customer_email = ret'.args[1]
             /\ row.issue = ret'.args[2]
             /\ row.priority = ret'.args[3]
             /\ ret'.out.value = <<"Support ticket ", row.ticket_id,
                                   " created. Team will respond within 24 hours.">> ]_vars

(* a ticket with a contact that is no address, an empty issue and an unknown
   priority was stored as given *)
C16_Witness ==
    /\ ret.op = "create_support_ticket"
    /\ ret.out.kind = "return"
    /\ Len(tickets) >= 1
    /\ tickets[Len(tickets)].customer_email = "not-an-email"
    /\ tickets[Len(tickets)].issue = ""
    /\ tickets[Len(tickets)].priority = "whenever"
    /\ tickets[Len(tickets)].status = "open"

(* C17: the ticket_id a call stores is the prefix and the whole second of the
   clock at the call, whatever the arguments; calls in one second therefore
   get one identifier, and calls in different seconds different ones. *)
C17_TicketIdIsTheSecond ==
    [][ ticket_calls' # ticket_calls =>
          LET id == tickets'[Len(tickets')].ticket_id IN
          /\ id[1] = "TKT-"
          /\ id[2] * TicksPerSecond <= now
          /\ now < (id[2] + 1) * TicksPerSecond ]_vars

(* two calls with different arguments, at different ticks of one second,
   have stored the same ticket_id *)
C17_Witness ==
    /\ Len(tickets) = 2
    /\ now = 1
    /\ tickets[1].ticket_id = tickets[2].ticket_id
    /\ tickets[1].customer_email # tickets[2].customer_email

(* C18: no tool call changes orders or inventory; the tickets store changes
   only in a create_support_ticket call, which adds one row at the end and
   leaves the rows before it as they were. *)
C18_OnlyTicketCreationWrites ==
    [][ /\ orders' = orders
        /\ inventory' = inventory
        /\ (tickets' # tickets =>
              /\ ret'.op = "create_support_ticket"
              /\ Len(tickets') = Len(tickets) + 1
              /\ SubSeq(tickets', 1, Len(tickets)) = tickets) ]_vars

(* a lookup ran after two tickets with the same ticket_id were stored, and
   both rows are there *)
C18_Witness ==
    /\ ret.op \in {"check_order_status", "check_inventory", "check_return_policy"}
    /\ Len(tickets) = 2
    /\ tickets[1].ticket_id = tickets[2].ticket_id
    /\ tickets[1] # tickets[2]

(* C19, as stated: exactly two of the four tools leave their connection
   unclosed, so the tools that have left one never number more than two. *)
C19_TwoToolsLeaveUnclosed == Cardinality(unclosed) <= 2

(* C19, amended: three of the four tools, check_order_status,
   create_support_ticket and check_inventory, leave the connection they
   opened unclosed when they return; check_return_policy opens none. *)
C19_ThreeToolsLeaveUnclosed ==
    /\ (ret.op \in {"check_order_status", "create_support_ticket", "check_inventory"}
          => ret.op \in unclosed)
    /\ "check_return_policy" \notin unclosed
    /\ Cardinality(unclosed) <= 3

C19_Witness ==
    /\ ret.op = "check_return_policy"
    /\ unclosed = {"check_order_status", "create_support_ticket", "check_inventory"}

-----------------------------------------------------------------------------
(* Properties of concurrent invocations, under ThreadsSpec *)

(* C23: the counters are updated by a load and a later store with nothing
   to keep other threads out in between: every store writes the value its
   thread loaded plus one, whatever the counter holds by then, so
   total_queries never exceeds, and can fall short of, the number of stores
   made to it. *)
C23_StoresWriteWhatWasLoaded ==
    /\ [](metrics.total_queries <= SumRuns(Threads))
    /\ [][ \A t \in Threads :
             /\ (threads[t].at = "load_total" /\ threads'[t].at = "in_flight"
                   => metrics'.total_queries = threads[t].loaded + 1)
             /\ (threads[t].at = "load_outcome" /\ threads'[t].at = "idle"
                   => metrics'[threads[t].key] = threads[t].loaded + 1) ]_vars

(* both threads have raised total_queries and are out of run: two
   increments were made and the counter holds 1 *)
C23_Witness ==
    /\ \A t \in Threads : threads[t].at = "idle" /\ threads[t].runs = 1
    /\ metrics.total_queries = 1

====
